---- MODULE Spec2Model ----
(***************************************************************************)
(* GoboFlow node system: Socket, Connection, Node and NodeGraph of         *)
(* core/node_system.py, with the socket types of core/socket_types.py.     *)
(*                                                                         *)
(* A node object is a number of NodeIds.  Node classes differ in the        *)
(* sockets their _init_sockets declares: here every node has the output    *)
(* out1 and the input in1, node 1 also has the output out2, and the nodes  *)
(* from 2 on also have the multi input in2.  A socket is the pair          *)
(* <<node, name>>.  A Connection object is the record                      *)
(* [id, output_socket, input_socket]; the socket lists and the graph's     *)
(* connection map hold these records the way the code holds references.    *)
(***************************************************************************)
EXTENDS Integers, Sequences, FiniteSets, TLC

\* ---------------------------------------------------------------- bounds
NumNodes == 3
SmallNodes == 2
MaxConnections == 3
ValMod == 2
MaxArrayDepth == 1

NodeIds == 1..NumNodes
\* nesting depth of get_output_value calls after which the interpreter
\* raises RecursionError; deeper than any acyclic chain over NodeIds
RecursionLimit == NumNodes + 1

\* ---------------------------------------------------------- socket types
NUMBER == [kind |-> "Number"]
VECTOR2D == [kind |-> "Vector"]
GEOMETRY == [kind |-> "Geometry"]
COLOR == [kind |-> "Color"]
STRING_T == [kind |-> "String"]
BOOLEAN_T == [kind |-> "Boolean"]
ANY == [kind |-> "Any"]
ArrayType(t) == [kind |-> "Array", element_type |-> t]

BaseTypes == {NUMBER, VECTOR2D, GEOMETRY, COLOR, STRING_T, BOOLEAN_T, ANY}

\* the socket types with arrays nested up to depth d
RECURSIVE TypesUpTo(_)
TypesUpTo(d) ==
    IF d = 0 THEN BaseTypes
    ELSE TypesUpTo(d - 1) \cup {ArrayType(t) : t \in TypesUpTo(d - 1)}

Types == TypesUpTo(MaxArrayDepth)

RECURSIVE IsCompatibleWith(_, _)
\* as IsCompatibleWith, but a Boolean is accepted by a Boolean only
IsCompatibleWith_BooleanOnly(self, other) ==
    CASE self.kind = "Number" -> other.kind \in {"Number", "Vector"}
      [] self.kind = "Vector" -> other.kind \in {"Number", "Vector"}
      [] self.kind = "Geometry" -> other.kind = "Geometry"
      [] self.kind = "Color" -> other.kind \in {"Color", "Vector"}
      [] self.kind = "String" -> other.kind = "String"
      [] self.kind = "Boolean" -> other.kind = "Boolean"
      [] self.kind = "Array" ->
            IF other.kind = "Array"
            THEN IsCompatibleWith(self.element_type, other.element_type)
            ELSE IsCompatibleWith(self.element_type, other)
      [] self.kind = "Any" -> TRUE

IsCompatibleWith(self, other) ==
    CASE self.kind = "Number" -> other.kind \in {"Number", "Vector"}
      [] self.kind = "Vector" -> other.kind \in {"Number", "Vector"}
      [] self.kind = "Geometry" -> other.kind = "Geometry"
      [] self.kind = "Color" -> other.kind \in {"Color", "Vector"}
      [] self.kind = "String" -> other.kind = "String"
      [] self.kind = "Boolean" -> other.kind \in {"Boolean", "Number"}
      [] self.kind = "Array" ->
            IF other.kind = "Array"
            THEN IsCompatibleWith(self.element_type, other.element_type)
            ELSE IsCompatibleWith(self.element_type, other)
      [] self.kind = "Any" -> TRUE

\* ---------------------------------------------------------- convert_value
\* Python values: None, a number, a bool, a str (its characters), a list,
\* a dict and an object of a class without __float__
NoneV == [tag |-> "None"]
Num(n) == [tag |-> "number", n |-> n]
Ratio(k, d) == IF k % d = 0 THEN Num(k \div d) ELSE [tag |-> "number", n |-> k, over |-> d]
Bool(b) == [tag |-> "bool", b |-> b]
Str(cs) == [tag |-> "str", chars |-> cs]
List(items) == [tag |-> "list", items |-> items]
Dict(entries) == [tag |-> "dict", entries |-> entries]
Obj == [tag |-> "object"]

\* the value of a character as a digit, -1 when it is none
DigitOf(c) ==
    CASE c = "0" -> 0 [] c = "1" -> 1 [] c = "8" -> 8
      [] c = "F" -> 15 [] c = "f" -> 15
      [] OTHER -> -1

\* int(cs, base) and the parse of float(cs) for a digit string: raises
\* ValueError on the empty string and on a character that is no digit
RECURSIVE ParseDigits(_, _)
ParseDigits(cs, base) ==
    IF cs = <<>> THEN [raised |-> TRUE, n |-> 0]
    ELSE LET d == DigitOf(cs[Len(cs)])
         IN  IF d < 0 \/ d >= base THEN [raised |-> TRUE, n |-> 0]
             ELSE IF Len(cs) = 1 THEN [raised |-> FALSE, n |-> d]
             ELSE LET r == ParseDigits(SubSeq(cs, 1, Len(cs) - 1), base)
                  IN  [raised |-> r.raised, n |-> r.n * base + d]

\* float(v): ValueError for a str that is no number, TypeError for None, a
\* list, a dict and an object
Float(v) ==
    CASE v.tag = "number" -> [raised |-> FALSE, value |-> v]
      [] v.tag = "bool" -> [raised |-> FALSE, value |-> Num(IF v.b THEN 1 ELSE 0)]
      [] v.tag = "str" -> LET r == ParseDigits(v.chars, 10)
                          IN  [raised |-> r.raised, value |-> Num(r.n)]
      [] OTHER -> [raised |-> TRUE, value |-> NoneV]

\* [float(x) for x in items]
FloatAll(items) ==
    [raised |-> \E i \in 1..Len(items) : Float(items[i]).raised,
     value |-> [i \in 1..Len(items) |-> Float(items[i]).value]]

Lower(c) == CASE c = "F" -> "f" [] c = "G" -> "g" [] c = "T" -> "t" [] OTHER -> c

White == Dict([r |-> Num(1), g |-> Num(1), b |-> Num(1), a |-> Num(1)])

NumberConvert(v) ==
    IF v.tag = "None" THEN [raised |-> FALSE, value |-> Num(0)]
    ELSE IF Float(v).raised THEN [raised |-> FALSE, value |-> Num(0)]
    ELSE [raised |-> FALSE, value |-> Float(v).value]

\* VectorType(2).convert_value
VectorConvert(v) ==
    CASE v.tag = "None" -> [raised |-> FALSE, value |-> List(<<Num(0), Num(0)>>)]
      [] v.tag \in {"number", "bool"} ->
            [raised |-> FALSE, value |-> List(<<Float(v).value, Float(v).value>>)]
      [] v.tag = "list" ->
            LET head == SubSeq(v.items, 1, IF Len(v.items) < 2 THEN Len(v.items) ELSE 2)
                vec == FloatAll(head)
            IN  IF vec.raised THEN [raised |-> TRUE, value |-> NoneV]
                ELSE [raised |-> FALSE,
                      value |-> List([i \in 1..2 |->
                                        IF i <= Len(head) THEN vec.value[i] ELSE Num(0)])]
      [] OTHER -> [raised |-> FALSE, value |-> List(<<Num(0), Num(0)>>)]

\* the colour of the digit strings of its three channels
HexChannels(rs, gs, bs) ==
    LET r == ParseDigits(rs, 16)
        g == ParseDigits(gs, 16)
        b == ParseDigits(bs, 16)
    IN  IF r.raised \/ g.raised \/ b.raised THEN [raised |-> TRUE, value |-> NoneV]
        ELSE [raised |-> FALSE,
              value |-> Dict([r |-> Ratio(r.n, 255), g |-> Ratio(g.n, 255),
                              b |-> Ratio(b.n, 255), a |-> Num(1)])]

\* value.get(key, 1.0) of a dict
DictGet(entries, key) == IF key \in DOMAIN entries THEN entries[key] ELSE Num(1)

ColorConvert(v) ==
    CASE v.tag = "None" -> [raised |-> FALSE, value |-> White]
      [] v.tag = "str" ->
            IF v.chars # <<>> /\ v.chars[1] = "#"
            THEN LET hex == Tail(v.chars)
                 IN  IF Len(hex) = 3
                     THEN HexChannels(<<hex[1], hex[1]>>, <<hex[2], hex[2]>>,
                                      <<hex[3], hex[3]>>)
                     ELSE IF Len(hex) = 6
                     THEN HexChannels(SubSeq(hex, 1, 2), SubSeq(hex, 3, 4),
                                      SubSeq(hex, 5, 6))
                     ELSE [raised |-> FALSE, value |-> White]
            ELSE [raised |-> FALSE, value |-> White]
      [] v.tag = "list" ->
            IF Len(v.items) >= 3
            THEN LET c == FloatAll(SubSeq(v.items, 1, IF Len(v.items) > 3 THEN 4 ELSE 3))
                 IN  IF c.raised THEN [raised |-> TRUE, value |-> NoneV]
                     ELSE [raised |-> FALSE,
                           value |-> Dict([r |-> c.value[1], g |-> c.value[2],
                                           b |-> c.value[3],
                                           a |-> IF Len(v.items) > 3 THEN c.value[4]
                                                 ELSE Num(1)])]
            ELSE [raised |-> FALSE, value |-> White]
      [] v.tag = "dict" ->
            LET r == Float(DictGet(v.entries, "r"))
                g == Float(DictGet(v.entries, "g"))
                b == Float(DictGet(v.entries, "b"))
                a == Float(DictGet(v.entries, "a"))
            IN  IF r.raised \/ g.raised \/ b.raised \/ a.raised
                THEN [raised |-> TRUE, value |-> NoneV]
                ELSE [raised |-> FALSE,
                      value |-> Dict([r |-> r.value, g |-> g.value,
                                      b |-> b.value, a |-> a.value])]
      [] OTHER -> [raised |-> FALSE, value |-> White]

\* str(v) of a value that is no str is the text Python prints for it
StringConvert(v) ==
    CASE v.tag = "None" -> [raised |-> FALSE, value |-> Str(<<>>)]
      [] v.tag = "str" -> [raised |-> FALSE, value |-> v]
      [] OTHER -> [raised |-> FALSE, value |-> [tag |-> "str", text_of |-> v]]

BooleanConvert(v) ==
    CASE v.tag = "None" -> [raised |-> FALSE, value |-> Bool(FALSE)]
      [] v.tag = "bool" -> [raised |-> FALSE, value |-> v]
      [] v.tag = "number" -> [raised |-> FALSE, value |-> Bool(v.n # 0)]
      [] v.tag = "str" ->
            [raised |-> FALSE,
             value |-> Bool([i \in 1..Len(v.chars) |-> Lower(v.chars[i])]
                                \in {<<"t", "r", "u", "e">>, <<"1">>,
                                     <<"y", "e", "s">>, <<"o", "n">>})]
      [] v.tag = "list" -> [raised |-> FALSE, value |-> Bool(v.items # <<>>)]
      [] v.tag = "dict" -> [raised |-> FALSE, value |-> Bool(DOMAIN v.entries # {})]
      [] OTHER -> [raised |-> FALSE, value |-> Bool(TRUE)]

\* convert_value of the socket type t on the value v: [raised, value]
RECURSIVE ConvertValue(_, _)
ArrayConvert(t, v) ==
    IF v.tag = "None" THEN [raised |-> FALSE, value |-> List(<<>>)]
    ELSE LET items == IF v.tag = "list" THEN v.items ELSE <<v>>
             each == [i \in 1..Len(items) |-> ConvertValue(t.element_type, items[i])]
         IN  IF \E i \in 1..Len(items) : each[i].raised
             THEN [raised |-> TRUE, value |-> NoneV]
             ELSE [raised |-> FALSE,
                   value |-> List([i \in 1..Len(items) |-> each[i].value])]

ConvertValue(t, v) ==
    CASE t.kind = "Number" -> NumberConvert(v)
      [] t.kind = "Vector" -> VectorConvert(v)
      [] t.kind = "Geometry" -> [raised |-> FALSE, value |-> v]
      [] t.kind = "Color" -> ColorConvert(v)
      [] t.kind = "String" -> StringConvert(v)
      [] t.kind = "Boolean" -> BooleanConvert(v)
      [] t.kind = "Array" -> ArrayConvert(t, v)
      [] t.kind = "Any" -> [raised |-> FALSE, value |-> v]

\* the values convert_value is called on
Values ==
    {NoneV, Num(0), Num(1), Bool(TRUE), Bool(FALSE), Obj,
     Str(<<>>), Str(<<"1">>), Str(<<"1", "8">>), Str(<<"T", "r", "u", "e">>),
     Str(<<"#", "F", "0", "8">>), Str(<<"#", "F", "F", "0", "0", "8", "8">>),
     Str(<<"#", "G", "0", "0">>), Str(<<"#", "0", "0", "0", "0", "G", "0">>),
     Str(<<"#", "F", "F">>),
     List(<<>>), List(<<Num(1)>>), List(<<Num(1), Str(<<"8">>)>>),
     List(<<Num(1), Str(<<"G">>)>>), List(<<Num(0), Num(1), Num(1)>>),
     List(<<Num(1), Num(0), Obj>>), List(<<Num(1), Num(0), Num(0), Num(0)>>),
     Dict([r |-> Num(0)]), Dict([r |-> Num(0), a |-> Str(<<"G">>)])}

\* ------------------------------------------------------- node's sockets
OutputNames == <<"out1", "out2">>
InputNames == <<"in1", "in2">>

SeqRange(s) == {s[i] : i \in 1..Len(s)}

\* the sockets _init_sockets declares on node n
HasSocket(n, name) ==
    CASE name = "out2" -> n = 1
      [] name = "in2" -> n >= 2
      [] OTHER -> TRUE

OutputSockets ==
    {<<n, OutputNames[k]>> : n \in NodeIds, k \in 1..Len(OutputNames)}
        \cap {s \in NodeIds \X SeqRange(OutputNames) : HasSocket(s[1], s[2])}
InputSockets ==
    {<<n, InputNames[k]>> : n \in NodeIds, k \in 1..Len(InputNames)}
        \cap {s \in NodeIds \X SeqRange(InputNames) : HasSocket(s[1], s[2])}

\* the names of node n's output_sockets / input_sockets, in insertion order
OutputsOf(n) == SelectSeq(OutputNames, LAMBDA o : HasSocket(n, o))
InputsOf(n) == SelectSeq(InputNames, LAMBDA i : HasSocket(n, i))
Sockets == OutputSockets \cup InputSockets

Direction(s) == IF s \in OutputSockets THEN "output" ELSE "input"

\* the socket type _init_sockets gives to the socket s
DeclaredType(s) ==
    CASE s[2] = "out1" -> NUMBER
      [] s[2] = "out2" -> COLOR
      [] s[2] = "in1" -> NUMBER
      [] s[2] = "in2" -> VECTOR2D

\* add_output creates every output socket with is_multi = False
IsMulti(s) == s[2] = "in2"

None == -1
DefaultValue(s) == IF s[2] = "in1" THEN 1 ELSE 0

\* ------------------------------------------------------------------ state
VARIABLES
    nodes,          \* NodeGraph.nodes: the node ids, in insertion order
    connections,    \* NodeGraph.connections: the Connections, each under its id
    sock,           \* Socket.connections of every socket: a list of Connections
    state,          \* Node.state
    cache_valid,    \* Node._cache_valid
    output_cache,   \* Node._output_cache: output name -> value
    removed,        \* the nodes remove_node has taken out: none is added again
    last,           \* the last call made on the graph and how it ended
    socket_type     \* Socket.socket_type of every socket

vars == <<nodes, connections, sock, state, cache_valid, output_cache, removed, last,
          socket_type>>

SocketTypeOf(s) == socket_type[s]

NodeSet == SeqRange(nodes)

Remove(s, e) == SelectSeq(s, LAMBDA x : x # e)

\* the record kept of a call: its name and arguments, whether it raised and
\* which error, the value or node order it returned, the compute() calls it
\* made and the nodes it set Dirty
Call(op, args) ==
    [op |-> op, args |-> args, raised |-> FALSE, error |-> "", value |-> None,
     order |-> <<>>, computed |-> <<>>, dirtied |-> <<>>]

NoCall == Call("none", <<>>)

Init ==
    /\ nodes = <<>>
    /\ connections = {}
    /\ sock = [s \in Sockets |-> <<>>]
    /\ state = [n \in NodeIds |-> "clean"]
    /\ cache_valid = [n \in NodeIds |-> FALSE]
    /\ output_cache = [n \in NodeIds |-> <<>>]
    /\ removed = {}
    /\ last = NoCall
    /\ socket_type = [s \in Sockets |-> DeclaredType(s)]

\* ----------------------------------------------------------------- Socket
\* can_connect_to: the first check that returns False, "" when none does
\* as CanConnectRefusal, but without the check of the two socket types
CanConnectRefusal_NoTypeCheck(sk, self, other) ==
    IF self[1] = other[1] THEN "same_node"
    ELSE IF Direction(self) = Direction(other) THEN "same_direction"
    ELSE IF ~IsMulti(self) /\ Len(sk[self]) > 0 THEN "self_connected"
    ELSE IF ~IsMulti(other) /\ Len(sk[other]) > 0 THEN "other_connected"
    ELSE ""

\* as CanConnectRefusal, but without the check of the asked socket's own
\* connections
CanConnectRefusal_NoSelfCheck(sk, self, other) ==
    IF self[1] = other[1] THEN "same_node"
    ELSE IF Direction(self) = Direction(other) THEN "same_direction"
    ELSE IF ~IsCompatibleWith(SocketTypeOf(self), SocketTypeOf(other)) THEN "incompatible"
    ELSE IF ~IsMulti(other) /\ Len(sk[other]) > 0 THEN "other_connected"
    ELSE ""

\* as CanConnectRefusal, but without the check of the other socket's
\* connections
CanConnectRefusal_NoOtherCheck(sk, self, other) ==
    IF self[1] = other[1] THEN "same_node"
    ELSE IF Direction(self) = Direction(other) THEN "same_direction"
    ELSE IF ~IsCompatibleWith(SocketTypeOf(self), SocketTypeOf(other)) THEN "incompatible"
    ELSE IF ~IsMulti(self) /\ Len(sk[self]) > 0 THEN "self_connected"
    ELSE ""

\* as CanConnectRefusal, but without the check of the two sockets' nodes
CanConnectRefusal_NoSameNode(sk, self, other) ==
    IF Direction(self) = Direction(other) THEN "same_direction"
    ELSE IF ~IsCompatibleWith(SocketTypeOf(self), SocketTypeOf(other)) THEN "incompatible"
    ELSE IF ~IsMulti(self) /\ Len(sk[self]) > 0 THEN "self_connected"
    ELSE IF ~IsMulti(other) /\ Len(sk[other]) > 0 THEN "other_connected"
    ELSE ""

CanConnectRefusal(sk, self, other) ==
    IF self[1] = other[1] THEN "same_node"
    ELSE IF Direction(self) = Direction(other) THEN "same_direction"
    ELSE IF ~IsCompatibleWith(SocketTypeOf(self), SocketTypeOf(other)) THEN "incompatible"
    ELSE IF ~IsMulti(self) /\ Len(sk[self]) > 0 THEN "self_connected"
    ELSE IF ~IsMulti(other) /\ Len(sk[other]) > 0 THEN "other_connected"
    ELSE ""

SocketCanConnectTo(sk, self, other) == CanConnectRefusal(sk, self, other) = ""

Contains(s, e) == \E i \in 1..Len(s) : s[i] = e

\* as AddConnection, but the socket keeps only the newest connection
AddConnection_Replacing(sk, s, c) == [sk EXCEPT ![s] = <<c>>]

AddConnection(sk, s, c) ==
    IF Contains(sk[s], c) THEN sk ELSE [sk EXCEPT ![s] = Append(@, c)]

\* list.remove drops the first occurrence
RemoveFirst(s, e) ==
    IF ~Contains(s, e) THEN s
    ELSE LET i == CHOOSE k \in 1..Len(s) :
                      s[k] = e /\ \A j \in 1..(k - 1) : s[j] # e
         IN  SubSeq(s, 1, i - 1) \o SubSeq(s, i + 1, Len(s))

RemoveConnection(sk, s, c) == [sk EXCEPT ![s] = RemoveFirst(@, c)]

\* ------------------------------------------------------------- Connection
\* as ConnectionInit, but adding the connection to the sockets before asking
\* can_connect_to
ConnectionInit_AddBeforeCheck(sk, c) ==
    LET sk1 == AddConnection(AddConnection(sk, c.output_socket, c), c.input_socket, c)
    IN  [raised |-> ~SocketCanConnectTo(sk, c.output_socket, c.input_socket),
         error |-> CanConnectRefusal(sk, c.output_socket, c.input_socket),
         sk |-> sk1]

\* Connection.__init__ on the connection c: raises ValueError when the output
\* socket refuses the input socket, else adds c to both sockets
ConnectionInit(sk, c) ==
    IF ~SocketCanConnectTo(sk, c.output_socket, c.input_socket)
    THEN [raised |-> TRUE,
          error |-> CanConnectRefusal(sk, c.output_socket, c.input_socket),
          sk |-> sk]
    ELSE [raised |-> FALSE, error |-> "",
          sk |-> AddConnection(AddConnection(sk, c.output_socket, c),
                               c.input_socket, c)]

\* as ConnectionDisconnect, but leaving the connection on the input socket
ConnectionDisconnect_OutputOnly(sk, c) == RemoveConnection(sk, c.output_socket, c)

ConnectionDisconnect(sk, c) ==
    RemoveConnection(RemoveConnection(sk, c.output_socket, c), c.input_socket, c)

\* ------------------------------------------------------------------- Node
\* A node store S is the record [state, cache_valid, output_cache] of the
\* three per-node fields, with the calls of compute() made so far (computed)
\* and the notifications fired so far (events).
Store(st, cv, oc) ==
    [state |-> st, cache_valid |-> cv, output_cache |-> oc,
     computed |-> <<>>, events |-> <<>>]

SetState(S, n, new_state) ==
    IF S.state[n] # new_state
    THEN [S EXCEPT !.state[n] = new_state,
                   !.events = Append(@, <<"state_changed", n, new_state>>)]
    ELSE S

\* the nodes a call set Dirty, in the order it did
Dirtied(S) ==
    LET es == SelectSeq(S.events, LAMBDA e : e[1] = "state_changed" /\ e[3] = "dirty")
    IN  [k \in 1..Len(es) |-> es[k][2]]

\* the nodes reached from n's output sockets, in the order _propagate_dirty
\* visits them: output sockets in dictionary order, connections in list order
RECURSIVE Flatten(_)
Flatten(ss) == IF ss = <<>> THEN <<>> ELSE Head(ss) \o Flatten(Tail(ss))

OutputConnections(sk, n) ==
    Flatten([k \in 1..Len(OutputsOf(n)) |-> sk[<<n, OutputsOf(n)[k]>>]])

InputConnections(sk, n) ==
    Flatten([k \in 1..Len(InputsOf(n)) |-> sk[<<n, InputsOf(n)[k]>>]])

RECURSIVE MarkDirty(_, _, _, _)
RECURSIVE PropagateDirty(_, _, _)
\* as PropagateDirty, but returning after the first connection
PropagateDirty_FirstOnly(sk, S, cs) ==
    IF cs = <<>> THEN S
    ELSE MarkDirty(sk, S, Head(cs).input_socket[1], TRUE)

PropagateDirty(sk, S, cs) ==
    IF cs = <<>> THEN S
    ELSE PropagateDirty(sk, MarkDirty(sk, S, Head(cs).input_socket[1], TRUE), Tail(cs))

\* as MarkDirty, but leaving the cache of the node valid
MarkDirty_KeepCache(sk, S, n, propagate) ==
    IF S.state[n] # "dirty"
    THEN LET S1 == SetState(S, n, "dirty")
         IN  IF propagate THEN PropagateDirty(sk, S1, OutputConnections(sk, n)) ELSE S1
    ELSE S

\* as MarkDirty, but notifying the state change of a node that is Dirty
\* already
MarkDirty_RenotifyDirty(sk, S, n, propagate) ==
    IF S.state[n] # "dirty"
    THEN LET S1 == [SetState(S, n, "dirty") EXCEPT !.cache_valid[n] = FALSE]
         IN  IF propagate THEN PropagateDirty(sk, S1, OutputConnections(sk, n)) ELSE S1
    ELSE [S EXCEPT !.events = Append(@, <<"state_changed", n, "dirty">>)]

\* as MarkDirty, but propagating from a node that is Dirty already
MarkDirty_PropagateWhenDirty(sk, S, n, propagate) ==
    LET S1 == IF S.state[n] # "dirty"
              THEN [SetState(S, n, "dirty") EXCEPT !.cache_valid[n] = FALSE]
              ELSE S
    IN  IF propagate THEN PropagateDirty(sk, S1, OutputConnections(sk, n)) ELSE S1

MarkDirty(sk, S, n, propagate) ==
    IF S.state[n] # "dirty"
    THEN LET S1 == [SetState(S, n, "dirty") EXCEPT !.cache_valid[n] = FALSE]
         IN  IF propagate THEN PropagateDirty(sk, S1, OutputConnections(sk, n)) ELSE S1
    ELSE S

\* The value compute() returns for output o from the values read from the
\* input sockets: a function of the node and of every input value.
RECURSIVE SeqSum(_)
SeqSum(s) == IF s = <<>> THEN 0 ELSE Head(s) + SeqSum(Tail(s))

InputNumber(sk, s, v) == IF IsMulti(s) /\ sk[s] # <<>> THEN SeqSum(v) ELSE v

ComputeResults(sk, n, ins) ==
    LET total == SeqSum([k \in 1..Len(InputsOf(n)) |->
                            InputNumber(sk, <<n, InputsOf(n)[k]>>, ins[k])])
    IN  [o \in SeqRange(OutputsOf(n)) |->
            (n + total + (IF o = "out1" THEN 0 ELSE 1)) % ValMod]

Raise(S) == [S |-> S, raised |-> TRUE, value |-> None]
Return(S, v) == [S |-> S, raised |-> FALSE, value |-> v]

\* F is the set of nodes whose compute() raises in this call.
RECURSIVE GetOutputValue(_, _, _, _, _, _)
RECURSIVE ReadConnections(_, _, _, _, _, _)
RECURSIVE ReadInputs(_, _, _, _, _, _, _)

\* [conn.get_value() for conn in self.connections]
ReadConnections(sk, F, S, cs, acc, depth) ==
    IF cs = <<>> THEN Return(S, acc)
    ELSE LET r == GetOutputValue(sk, F, S, Head(cs).output_socket[1],
                                 Head(cs).output_socket[2], depth)
         IN  IF r.raised THEN r
             ELSE ReadConnections(sk, F, r.S, Tail(cs), Append(acc, r.value), depth)

\* Socket.get_value of an input socket
SocketGetValue(sk, F, S, s, depth) ==
    IF sk[s] # <<>>
    THEN IF IsMulti(s)
         THEN ReadConnections(sk, F, S, sk[s], <<>>, depth)
         ELSE GetOutputValue(sk, F, S, sk[s][1].output_socket[1],
                             sk[s][1].output_socket[2], depth)
    ELSE Return(S, DefaultValue(s))

\* compute() reads its inputs with get_input_value, in declaration order
ReadInputs(sk, F, S, n, k, acc, depth) ==
    IF k > Len(InputsOf(n)) THEN Return(S, acc)
    ELSE LET r == SocketGetValue(sk, F, S, <<n, InputsOf(n)[k]>>, depth)
         IN  IF r.raised THEN r
             ELSE ReadInputs(sk, F, r.S, n, k + 1, Append(acc, r.value), depth)

Compute(sk, F, S, n, depth) ==
    LET S0 == [S EXCEPT !.computed = Append(@, n)]
        r == ReadInputs(sk, F, S0, n, 1, <<>>, depth - 1)
    IN  IF r.raised THEN r
        ELSE IF n \in F THEN Raise(r.S)
        ELSE Return(r.S, ComputeResults(sk, n, r.value))

\* as Recalculate, but without the except clause that sets the node to Error
Recalculate_NoExcept(sk, F, S, n, depth) ==
    LET S1 == SetState(S, n, "processing")
        r == Compute(sk, F, S1, n, depth)
    IN  IF r.raised
        THEN Raise(r.S)
        ELSE LET S2 == [r.S EXCEPT !.output_cache[n] = r.value,
                                   !.cache_valid[n] = TRUE]
                 S3 == SetState(S2, n, "clean")
             IN  Return([S3 EXCEPT !.events = Append(@, <<"value_changed", n, "">>)],
                        None)

\* as Recalculate, but notifying the value change when compute() raised too
Recalculate_NotifyAlways(sk, F, S, n, depth) ==
    LET S1 == SetState(S, n, "processing")
        r == Compute(sk, F, S1, n, depth)
    IN  IF r.raised
        THEN LET S2 == SetState(r.S, n, "error")
             IN  Raise([S2 EXCEPT !.events = Append(@, <<"value_changed", n, "">>)])
        ELSE LET S2 == [r.S EXCEPT !.output_cache[n] = r.value,
                                   !.cache_valid[n] = TRUE]
                 S3 == SetState(S2, n, "clean")
             IN  Return([S3 EXCEPT !.events = Append(@, <<"value_changed", n, "">>)],
                        None)

Recalculate(sk, F, S, n, depth) ==
    LET S1 == SetState(S, n, "processing")
        r == Compute(sk, F, S1, n, depth)
    IN  IF r.raised
        THEN Raise(SetState(r.S, n, "error"))
        ELSE LET S2 == [r.S EXCEPT !.output_cache[n] = r.value,
                                   !.cache_valid[n] = TRUE]
                 S3 == SetState(S2, n, "clean")
             IN  Return([S3 EXCEPT !.events = Append(@, <<"value_changed", n, "">>)],
                        None)

CacheGet(cache, name) == IF name \in DOMAIN cache THEN cache[name] ELSE None

\* as GetOutputValue, but recalculating without looking at the cache
GetOutputValue_NoCache(sk, F, S, n, name, depth) ==
    IF depth = 0 THEN Raise(S)
    ELSE LET r == Recalculate(sk, F, S, n, depth)
         IN  IF r.raised THEN r
             ELSE Return(r.S, CacheGet(r.S.output_cache[n], name))

GetOutputValue(sk, F, S, n, name, depth) ==
    IF depth = 0 THEN Raise(S)
    ELSE IF S.cache_valid[n] /\ name \in DOMAIN S.output_cache[n]
    THEN Return(S, S.output_cache[n][name])
    ELSE IF S.state[n] = "dirty" \/ ~S.cache_valid[n]
    THEN LET r == Recalculate(sk, F, S, n, depth)
         IN  IF r.raised THEN r
             ELSE Return(r.S, CacheGet(r.S.output_cache[n], name))
    ELSE Return(S, CacheGet(S.output_cache[n], name))

\* get_dependencies and get_dependents: [raised, value], raising
\* RecursionError when the calls nest deeper than the interpreter allows
RECURSIVE GetDependencies(_, _, _)
GetDependencies(sk, n, depth) ==
    IF depth = 0 THEN [raised |-> TRUE, value |-> {}]
    ELSE LET deps == {c.output_socket[1] : c \in SeqRange(InputConnections(sk, n))}
             sub == [d \in deps |-> GetDependencies(sk, d, depth - 1)]
         IN  IF \E d \in deps : sub[d].raised
             THEN [raised |-> TRUE, value |-> {}]
             ELSE [raised |-> FALSE,
                   value |-> deps \cup UNION {sub[d].value : d \in deps}]

RECURSIVE GetDependents(_, _, _)
GetDependents(sk, n, depth) ==
    IF depth = 0 THEN [raised |-> TRUE, value |-> {}]
    ELSE LET deps == {c.input_socket[1] : c \in SeqRange(OutputConnections(sk, n))}
             sub == [d \in deps |-> GetDependents(sk, d, depth - 1)]
         IN  IF \E d \in deps : sub[d].raised
             THEN [raised |-> TRUE, value |-> {}]
             ELSE [raised |-> FALSE,
                   value |-> deps \cup UNION {sub[d].value : d \in deps}]

\* as CanConnectTo, but without looking for self among other's dependencies
CanConnectTo_OneDirection(sk, self, other) ==
    LET mine == GetDependencies(sk, self, RecursionLimit)
    IN  IF mine.raised THEN [raised |-> TRUE, value |-> FALSE]
        ELSE [raised |-> FALSE, value |-> other \notin mine.value]

\* Node.can_connect_to
CanConnectTo(sk, self, other) ==
    LET mine == GetDependencies(sk, self, RecursionLimit)
        theirs == GetDependencies(sk, other, RecursionLimit)
    IN  IF mine.raised THEN [raised |-> TRUE, value |-> FALSE]
        ELSE IF other \in mine.value THEN [raised |-> FALSE, value |-> FALSE]
        ELSE IF theirs.raised THEN [raised |-> TRUE, value |-> FALSE]
        ELSE IF self \in theirs.value THEN [raised |-> FALSE, value |-> FALSE]
        ELSE [raised |-> FALSE, value |-> TRUE]

\* disconnect_all: the connections of the input sockets, then of the outputs
RECURSIVE DisconnectEach(_, _)
DisconnectEach(sk, cs) ==
    IF cs = <<>> THEN sk
    ELSE DisconnectEach(ConnectionDisconnect(sk, Head(cs)), Tail(cs))

\* as DisconnectAll, but emptying the lists of the node's own sockets only
DisconnectAll_OwnSocketsOnly(sk, n) ==
    [s \in Sockets |-> IF s[1] = n THEN <<>> ELSE sk[s]]

DisconnectAll(sk, n) ==
    LET sk1 == DisconnectEach(sk, InputConnections(sk, n))
    IN  DisconnectEach(sk1, OutputConnections(sk1, n))

\* -------------------------------------------------------------- NodeGraph
Connection(id, output_socket, input_socket) ==
    [id |-> id, output_socket |-> output_socket, input_socket |-> input_socket]

CurrentStore == Store(state, cache_valid, output_cache)

Commit(S) ==
    /\ state' = S.state
    /\ cache_valid' = S.cache_valid
    /\ output_cache' = S.output_cache

\* Kahn's algorithm of get_execution_order
\* as InDegree, but counting the connected input sockets, not the connections
InDegree_PerSocket(ns, sk) ==
    [n \in SeqRange(ns) |->
        Cardinality({k \in 1..Len(InputsOf(n)) : sk[<<n, InputsOf(n)[k]>>] # <<>>})]

InDegree(ns, sk) ==
    [n \in SeqRange(ns) |-> Len(InputConnections(sk, n))]

RECURSIVE ReduceDependents(_, _, _)
\* the loop over the connections of the current node's output sockets; w is
\* [in_degree, queue, raised]
ReduceDependents(cs, w, dummy) ==
    IF cs = <<>> \/ w.raised THEN w
    ELSE LET dependent_id == Head(cs).input_socket[1]
         IN  IF dependent_id \notin DOMAIN w.in_degree
             THEN [w EXCEPT !.raised = TRUE]
             ELSE LET d == w.in_degree[dependent_id] - 1
                      w1 == [w EXCEPT !.in_degree[dependent_id] = d,
                                      !.queue = IF d = 0 THEN Append(@, dependent_id)
                                                ELSE @]
                  IN  ReduceDependents(Tail(cs), w1, dummy)

RECURSIVE KahnLoop(_, _, _)
\* as KahnLoop, but taking the node at the end of the queue
KahnLoop_Lifo(sk, w, result) ==
    IF w.raised THEN [raised |-> TRUE, error |-> "KeyError", order |-> <<>>]
    ELSE IF w.queue = <<>> THEN [raised |-> FALSE, error |-> "", order |-> result]
    ELSE LET current_id == w.queue[Len(w.queue)]
             w1 == [w EXCEPT !.queue = SubSeq(@, 1, Len(@) - 1)]
         IN  KahnLoop(sk, ReduceDependents(OutputConnections(sk, current_id), w1, 0),
                      Append(result, current_id))

KahnLoop(sk, w, result) ==
    IF w.raised THEN [raised |-> TRUE, error |-> "KeyError", order |-> <<>>]
    ELSE IF w.queue = <<>> THEN [raised |-> FALSE, error |-> "", order |-> result]
    ELSE LET current_id == Head(w.queue)
             w1 == [w EXCEPT !.queue = Tail(@)]
         IN  KahnLoop(sk, ReduceDependents(OutputConnections(sk, current_id), w1, 0),
                      Append(result, current_id))

\* as ExecutionOrder, but returning the result without comparing its length
ExecutionOrder_NoLengthCheck(ns, sk) ==
    LET in_degree == InDegree(ns, sk)
        queue == SelectSeq(ns, LAMBDA n : in_degree[n] = 0)
    IN  KahnLoop(sk, [in_degree |-> in_degree, queue |-> queue, raised |-> FALSE], <<>>)

ExecutionOrder(ns, sk) ==
    LET in_degree == InDegree(ns, sk)
        queue == SelectSeq(ns, LAMBDA n : in_degree[n] = 0)
        r == KahnLoop(sk, [in_degree |-> in_degree, queue |-> queue, raised |-> FALSE],
                      <<>>)
    IN  IF r.raised THEN r
        ELSE IF Len(r.order) # Len(ns)
        THEN [raised |-> TRUE, error |-> "CycleError", order |-> <<>>]
        ELSE r

\* ---------------------------------------------------------------- actions
\* uuid4 gives every Connection an id that no other Connection has.  The
\* model names a Connection by its two sockets and a serial number that
\* tells it from the other Connections made between the same two sockets.
Known == connections \cup UNION {SeqRange(sock[s]) : s \in Sockets}

NewId(output_socket, input_socket) ==
    <<output_socket, input_socket,
      CHOOSE k \in 1..(Cardinality(Known) + 1) :
          /\ \A c \in Known : c.id # <<output_socket, input_socket, k>>
          /\ \A j \in 1..(k - 1) :
                \E c \in Known : c.id = <<output_socket, input_socket, j>> >>

AddNode(n) ==
    /\ n \notin NodeSet
    /\ n \notin removed
    /\ nodes' = Append(nodes, n)
    /\ last' = Call("add_node", <<n>>)
    /\ UNCHANGED <<connections, sock, state, cache_valid, output_cache, removed, socket_type>>

RemoveNode(n) ==
    /\ n \in NodeSet
    /\ sock' = DisconnectAll(sock, n)
    /\ nodes' = Remove(nodes, n)
    /\ removed' = removed \cup {n}
    /\ last' = Call("remove_node", <<n>>)
    /\ UNCHANGED <<connections, state, cache_valid, output_cache, socket_type>>

\* connect_nodes raises KeyError for a node id or socket name it cannot look
\* up, and ValueError when Connection.__init__ refuses the two sockets
ConnectLookupFails(on, os, in, is) ==
    \/ on \notin NodeSet
    \/ in \notin NodeSet
    \/ <<on, os>> \notin OutputSockets
    \/ <<in, is>> \notin InputSockets

ConnectNodes(on, os, in, is) ==
    /\ Cardinality(connections) < MaxConnections
    /\ IF ConnectLookupFails(on, os, in, is)
       THEN /\ last' = [Call("connect_nodes", <<>>)
                            EXCEPT !.raised = TRUE, !.error = "KeyError"]
            /\ UNCHANGED <<nodes, connections, sock, state, cache_valid, output_cache,
                           removed, socket_type>>
       ELSE LET c == Connection(NewId(<<on, os>>, <<in, is>>), <<on, os>>, <<in, is>>)
                r == ConnectionInit(sock, c)
                S == MarkDirty(r.sk, CurrentStore, in, TRUE)
            IN  IF r.raised
                THEN /\ last' = [Call("connect_nodes", <<>>)
                                     EXCEPT !.raised = TRUE, !.error = r.error]
                     /\ sock' = r.sk
                     /\ UNCHANGED <<nodes, connections, state, cache_valid,
                                    output_cache, removed, socket_type>>
                ELSE /\ sock' = r.sk
                     /\ connections' = connections \cup {c}
                     /\ Commit(S)
                     /\ last' = Call("connect_nodes", <<c.id>>)
                     /\ UNCHANGED <<nodes, removed, socket_type>>

\* as Disconnect, but without marking the input node dirty
Disconnect_NoMarkDirty(c) ==
    /\ c \in connections
    /\ sock' = ConnectionDisconnect(sock, c)
    /\ connections' = connections \ {c}
    /\ last' = Call("disconnect", <<c.id>>)
    /\ UNCHANGED <<nodes, state, cache_valid, output_cache, removed, socket_type>>

Disconnect(c) ==
    /\ c \in connections
    /\ LET sk == ConnectionDisconnect(sock, c)
           S == MarkDirty(sk, CurrentStore, c.input_socket[1], TRUE)
       IN  /\ sock' = sk
           /\ connections' = connections \ {c}
           /\ Commit(S)
           /\ last' = Call("disconnect", <<c.id>>)
    /\ UNCHANGED <<nodes, removed, socket_type>>

NodeMarkDirty(n, propagate) ==
    /\ n \in NodeSet
    /\ LET S == MarkDirty(sock, CurrentStore, n, propagate)
       IN  /\ Commit(S)
           /\ last' = [Call("mark_dirty", <<n, propagate>>) EXCEPT !.dirtied = Dirtied(S)]
    /\ UNCHANGED <<nodes, connections, sock, removed, socket_type>>

NodeGetOutputValue(n, name, F) ==
    /\ n \in NodeSet
    /\ <<n, name>> \in OutputSockets
    /\ LET r == GetOutputValue(sock, F, CurrentStore, n, name, RecursionLimit)
       IN  /\ Commit(r.S)
           /\ last' = [Call("get_output_value", <<n, name>>)
                           EXCEPT !.raised = r.raised, !.value = r.value,
                                  !.computed = r.S.computed]
    /\ UNCHANGED <<nodes, connections, sock, removed, socket_type>>

\* as GetExecutionOrder, but taking the connections out of the sockets of
\* the nodes it has ordered
GetExecutionOrder_RemovingEdges ==
    /\ LET r == ExecutionOrder(nodes, sock)
       IN  /\ last' = [Call("get_execution_order", <<>>)
                           EXCEPT !.raised = r.raised, !.error = r.error,
                                  !.order = r.order]
           /\ sock' = [s \in Sockets |->
                          IF Contains(r.order, s[1]) THEN <<>> ELSE sock[s]]
    /\ UNCHANGED <<nodes, connections, state, cache_valid, output_cache, removed, socket_type>>

GetExecutionOrder ==
    /\ LET r == ExecutionOrder(nodes, sock)
       IN  last' = [Call("get_execution_order", <<>>)
                        EXCEPT !.raised = r.raised, !.error = r.error, !.order = r.order]
    /\ UNCHANGED <<nodes, connections, sock, state, cache_valid, output_cache, removed, socket_type>>

\* the ids a Connection between two sockets can have
ConnectionIds ==
    {<<o, i, k>> : o \in OutputSockets, i \in InputSockets, k \in 1..MaxConnections}

\* as GraphDisconnect, but without the test that the id is in the map: the
\* lookup of an id that is not there raises KeyError
GraphDisconnect_Unguarded(conns, sk, S, id) ==
    IF \E c \in conns : c.id = id
    THEN LET c == CHOOSE c \in conns : c.id = id
             sk1 == ConnectionDisconnect(sk, c)
         IN  [raised |-> FALSE, connections |-> conns \ {c}, sk |-> sk1,
              S |-> MarkDirty(sk1, S, c.input_socket[1], TRUE)]
    ELSE [raised |-> TRUE, connections |-> conns, sk |-> sk, S |-> S]

\* NodeGraph.disconnect on the connection map conns, the socket lists sk and
\* the node store S
GraphDisconnect(conns, sk, S, id) ==
    IF \E c \in conns : c.id = id
    THEN LET c == CHOOSE c \in conns : c.id = id
             sk1 == ConnectionDisconnect(sk, c)
         IN  [raised |-> FALSE, connections |-> conns \ {c}, sk |-> sk1,
              S |-> MarkDirty(sk1, S, c.input_socket[1], TRUE)]
    ELSE [raised |-> FALSE, connections |-> conns, sk |-> sk, S |-> S]

\* graph.disconnect(id), the id in the connection map or not
DisconnectId(id) ==
    /\ LET r == GraphDisconnect(connections, sock, CurrentStore, id)
       IN  /\ connections' = r.connections
           /\ sock' = r.sk
           /\ Commit(r.S)
           /\ last' = [Call("disconnect", <<id>>) EXCEPT !.raised = r.raised]
    /\ UNCHANGED <<nodes, removed, socket_type>>

\* Connection.disconnect() called on a Connection the connection map holds
ConnectionDisconnectCall(c) ==
    /\ c \in connections
    /\ sock' = ConnectionDisconnect(sock, c)
    /\ last' = Call("connection_disconnect", <<c.id>>)
    /\ UNCHANGED <<nodes, connections, state, cache_valid, output_cache, removed,
                   socket_type>>

\* a query of a node: get_dependencies, get_dependents or can_connect_to
NodeQuery(op, args, r) ==
    /\ last' = [Call(op, args) EXCEPT !.raised = r.raised, !.value = r.value]
    /\ UNCHANGED <<nodes, connections, sock, state, cache_valid, output_cache,
                   removed, socket_type>>

NodeGetDependencies(n) ==
    /\ n \in NodeSet
    /\ NodeQuery("get_dependencies", <<n>>, GetDependencies(sock, n, RecursionLimit))

NodeGetDependents(n) ==
    /\ n \in NodeSet
    /\ NodeQuery("get_dependents", <<n>>, GetDependents(sock, n, RecursionLimit))

NodeCanConnectTo(self, other) ==
    /\ self \in NodeSet /\ other \in NodeSet
    /\ NodeQuery("can_connect_to", <<self, other>>, CanConnectTo(sock, self, other))

\* a call of is_compatible_with on two socket types
IsCompatibleCall(a, b) ==
    /\ last' = [Call("is_compatible_with", <<a, b>>)
                    EXCEPT !.value = IsCompatibleWith(a, b)]
    /\ UNCHANGED <<nodes, connections, sock, state, cache_valid, output_cache,
                   removed, socket_type>>

\* a call of convert_value of the socket type t on the value v
ConvertCall(t, v) ==
    /\ last' = [Call("convert_value", <<t, v>>)
                    EXCEPT !.raised = ConvertValue(t, v).raised,
                           !.value = ConvertValue(t, v).value]
    /\ UNCHANGED <<nodes, connections, sock, state, cache_valid, output_cache,
                   removed, socket_type>>

\* ---------------------------------------------------------- specifications
\* Spec: every call of the public interface, compute() bodies that may raise,
\* on a graph of the nodes 1..SmallNodes.
Next ==
    \/ \E n \in 1..SmallNodes : AddNode(n)
    \/ \E n \in NodeIds : RemoveNode(n)
    \/ \E on, in \in NodeIds :
          \E os \in SeqRange(OutputNames), is \in SeqRange(InputNames) :
              ConnectNodes(on, os, in, is)
    \/ \E c \in connections : Disconnect(c)
    \/ \E n \in NodeIds : \E p \in BOOLEAN : NodeMarkDirty(n, p)
    \/ \E n \in NodeIds : \E name \in SeqRange(OutputNames) : \E F \in SUBSET NodeSet :
          NodeGetOutputValue(n, name, F)
    \/ GetExecutionOrder

Spec == Init /\ [][Next]_vars

\* SpecGraph: the calls that build and take apart the graph, and
\* get_execution_order, on a graph of all the nodes.
NextGraph ==
    \/ \E n \in NodeIds : AddNode(n)
    \/ \E n \in NodeIds : RemoveNode(n)
    \/ \E on, in \in NodeIds :
          \E os \in SeqRange(OutputNames), is \in SeqRange(InputNames) :
              ConnectNodes(on, os, in, is)
    \/ \E c \in connections : Disconnect(c)
    \/ GetExecutionOrder

SpecGraph == Init /\ [][NextGraph]_vars

\* SpecDirty: the nodes are added in the order of their numbers and wired
\* with connections the sockets accept, each from a node to a node added
\* after it; values are pulled and nodes marked dirty; no compute() raises.
NextDirty ==
    \/ Len(nodes) < NumNodes /\ AddNode(Len(nodes) + 1)
    \/ \E on, in \in NodeIds :
          \E os \in SeqRange(OutputNames), is \in SeqRange(InputNames) :
              on < in /\ ConnectNodes(on, os, in, is) /\ ~last'.raised
    \/ \E n \in NodeIds : \E p \in BOOLEAN : NodeMarkDirty(n, p)
    \/ \E n \in NodeIds : \E name \in SeqRange(OutputNames) :
          NodeGetOutputValue(n, name, {})

SpecDirty == Init /\ [][NextDirty]_vars

\* SpecDeps: the nodes are added in the order of their numbers, wired with
\* connections the sockets accept and unwired; the dependency queries of the
\* nodes are called.
NextDeps ==
    \/ Len(nodes) < NumNodes /\ AddNode(Len(nodes) + 1)
    \/ \E on, in \in NodeIds :
          \E os \in SeqRange(OutputNames), is \in SeqRange(InputNames) :
              ConnectNodes(on, os, in, is) /\ ~last'.raised
    \/ \E c \in connections : Disconnect(c)
    \/ \E n \in NodeIds : NodeGetDependencies(n)
    \/ \E n \in NodeIds : NodeGetDependents(n)
    \/ \E a, b \in NodeIds : NodeCanConnectTo(a, b)

SpecDeps == Init /\ [][NextDeps]_vars

\* SpecDisc: SmallNodes nodes are added in the order of their numbers and wired
\* with connections the sockets accept; connections are disconnected through the
\* graph, by ids that are in the connection map and ids of two sockets of
\* two nodes of the graph that are not, and through the Connection objects.
NextDisc ==
    \/ Len(nodes) < SmallNodes /\ AddNode(Len(nodes) + 1)
    \/ \E on, in \in NodeIds :
          \E os \in SeqRange(OutputNames), is \in SeqRange(InputNames) :
              ConnectNodes(on, os, in, is) /\ ~last'.raised
    \/ \E id \in ConnectionIds :
          /\ id[1][1] \in NodeSet /\ id[2][1] \in NodeSet /\ id[1][1] # id[2][1]
          /\ DisconnectId(id)
    \/ \E c \in connections : ConnectionDisconnectCall(c)

SpecDisc == Init /\ [][NextDisc]_vars

\* SpecTypes: the methods of the socket types, called on types with arrays
\* nested up to MaxArrayDepth.
NextTypes ==
    \/ \E a, b \in Types : IsCompatibleCall(a, b)
    \/ \E t \in Types : \E v \in Values : ConvertCall(t, v)

SpecTypes == Init /\ [][NextTypes]_vars

\* SpecWire: a graph of SmallNodes nodes whose classes declare the output
\* socket 'out1' of the first node and the input socket 'in1' of the second
\* with any two of the socket types; the nodes are added and wired.
InitWire ==
    /\ nodes = <<>>
    /\ connections = {}
    /\ sock = [s \in Sockets |-> <<>>]
    /\ state = [n \in NodeIds |-> "clean"]
    /\ cache_valid = [n \in NodeIds |-> FALSE]
    /\ output_cache = [n \in NodeIds |-> <<>>]
    /\ removed = {}
    /\ last = NoCall
    /\ \E a, b \in Types :
          socket_type = [s \in Sockets |->
                            IF s = <<1, "out1">> THEN a
                            ELSE IF s = <<2, "in1">> THEN b
                            ELSE DeclaredType(s)]

NextWire ==
    \/ Len(nodes) < SmallNodes /\ AddNode(Len(nodes) + 1)
    \/ \E on, in \in NodeIds :
          \E os \in SeqRange(OutputNames), is \in SeqRange(InputNames) :
              ConnectNodes(on, os, in, is)
    \/ \E c \in connections : Disconnect(c)

SpecWire == InitWire /\ [][NextWire]_vars

\* ------------------------------------------------------------- properties
\* the Connections held by the sockets, and the "produces value for" edges
Live == UNION {SeqRange(sock[s]) : s \in Sockets}
Edges == {<<c.output_socket[1], c.input_socket[1]>> : c \in Live}

RECURSIVE ReachableIn(_, _)
\* the nodes reached from the set X along one to k edges
ReachableIn(X, k) ==
    IF k = 0 THEN {}
    ELSE LET step == {e[2] : e \in {d \in Edges : d[1] \in X}}
         IN  step \cup ReachableIn(step, k - 1)

Dependents(n) == ReachableIn({n}, NumNodes)
HasCycle == \E n \in NodeIds : n \in Dependents(n)

IndexOf(s, e) == CHOOSE i \in 1..Len(s) : s[i] = e

\* C1: the graph of the connections, from the node of the output socket to
\* the node of the input socket, has no cycle in any reachable state.
C1_Acyclic == ~HasCycle

\* C2: on a graph without cycle get_execution_order returns every node of the
\* graph exactly once, the producer of every connection before its consumer.
C2_TopologicalOrder ==
    (last.op = "get_execution_order" /\ ~HasCycle) =>
        /\ ~last.raised
        /\ Len(last.order) = Len(nodes)
        /\ SeqRange(last.order) = NodeSet
        /\ \A e \in Edges : IndexOf(last.order, e[1]) < IndexOf(last.order, e[2])

\* an order was returned for three nodes, two of them joined by two parallel
\* connections and one fed by two producers
C2_Witness ==
    /\ last.op = "get_execution_order"
    /\ ~last.raised
    /\ Len(last.order) = 3
    /\ \E c, d \in Live :
          /\ c # d
          /\ c.output_socket[1] = d.output_socket[1]
          /\ c.input_socket[1] = d.input_socket[1]
    /\ \E c, d \in Live :
          /\ c.output_socket[1] # d.output_socket[1]
          /\ c.input_socket[1] = d.input_socket[1]

\* C3: get_execution_order raises the cycle error exactly when the
\* connections contain a directed cycle.
C3_CycleDetection ==
    last.op = "get_execution_order" =>
        /\ last.raised <=> HasCycle
        /\ last.raised => last.error = "CycleError"

\* the cycle error was raised on a cycle through three nodes
C3_Witness ==
    /\ last.op = "get_execution_order"
    /\ last.raised
    /\ last.error = "CycleError"
    /\ \E a, b, c \in NodeSet :
          /\ a # b /\ b # c /\ a # c
          /\ {<<a, b>>, <<b, c>>, <<c, a>>} \subseteq Edges

Count(s, e) == Cardinality({i \in 1..Len(s) : s[i] = e})

\* C4: two consecutive get_output_value(name) calls on a Clean node give the
\* same outcome and call the node's compute() at most once in total.
C4_CachedRead ==
    \A n \in NodeSet : \A name \in SeqRange(OutputsOf(n)) : \A F \in SUBSET NodeSet :
        state[n] = "clean" =>
            LET r1 == GetOutputValue(sock, F, CurrentStore, n, name, RecursionLimit)
                r2 == GetOutputValue(sock, F, r1.S, n, name, RecursionLimit)
            IN  /\ r1.raised = r2.raised
                /\ r1.value = r2.value
                /\ Count(r2.S.computed, n) <= 1

\* C5: get_output_value calls compute() on no node that was Clean with a
\* valid cache when the call was made.
C5_OnlyStaleRecomputed ==
    [][last'.op = "get_output_value" =>
          \A m \in NodeIds :
              (state[m] = "clean" /\ cache_valid[m]) => ~Contains(last'.computed, m)]_vars

\* a value was pulled through a node that had to be recomputed from a
\* producer that was not
C5_Witness ==
    /\ last.op = "get_output_value"
    /\ ~last.raised
    /\ Contains(last.computed, last.args[1])
    /\ \E e \in Edges : e[2] = last.args[1] /\ ~Contains(last.computed, e[1])

\* C6: for every chain A -> B -> C of three nodes, A.mark_dirty() called on
\* a node A that is not yet Dirty leaves B and C Dirty, whatever the state
\* of B before the call.
C6_DirtyReachesChain ==
    [][\A a, b, c \in NodeIds :
          ( /\ last'.op = "mark_dirty"
            /\ last'.args = <<a, TRUE>>
            /\ state[a] # "dirty"
            /\ a # b /\ b # c /\ a # c
            /\ <<a, b>> \in Edges /\ <<b, c>> \in Edges )
          => state'[b] = "dirty" /\ state'[c] = "dirty"]_vars

\* C7: mark_dirty(propagate=true) on a node that is not Dirty and has no Dirty
\* dependent leaves the node and every dependent Dirty with an invalid cache.
C7_DirtyClosure ==
    [][\A a \in NodeIds :
          ( /\ last'.op = "mark_dirty"
            /\ last'.args = <<a, TRUE>>
            /\ \A d \in {a} \cup Dependents(a) : state[d] # "dirty" )
          => \A d \in {a} \cup Dependents(a) :
                state'[d] = "dirty" /\ ~cache_valid'[d]]_vars

\* mark_dirty set three nodes Dirty, the last of them reached along two paths
C7_Witness ==
    /\ last.op = "mark_dirty"
    /\ last.args[2]
    /\ Len(last.dirtied) = 3
    /\ \E b, d \in NodeIds :
          /\ b # d /\ b # last.args[1] /\ d # last.args[1]
          /\ {<<last.args[1], b>>, <<b, d>>, <<last.args[1], d>>} \subseteq Edges
    /\ \A n \in NodeSet : state[n] = "dirty" /\ ~cache_valid[n]

\* C8: a node in state Clean has a valid cache.
C8_CleanHasValidCache ==
    \A n \in NodeSet : state[n] = "clean" => cache_valid[n]

\* C9: after remove_node(X) every remaining dependent of X is Dirty.
C9_RemoveMarksDependents ==
    [][last'.op = "remove_node" =>
          \A d \in Dependents(last'.args[1]) \ {last'.args[1]} :
              state'[d] = "dirty"]_vars

\* C10: after remove_node(X) no Connection with an endpoint on X is left in the
\* graph's connection map or in a socket of a node of the graph.
C10_RemoveSeversConnections ==
    last.op = "remove_node" =>
        \A c \in connections \cup Live :
            last.args[1] \notin {c.output_socket[1], c.input_socket[1]}

\* C11: a connect_nodes call that returns has made exactly one new
\* Connection: it is in the graph's connection map and once in the list of
\* each of its two sockets, the input node is Dirty, and no other connection
\* was added or removed.
C11_ConnectRegisters ==
    [][(last'.op = "connect_nodes" /\ ~last'.raised) =>
          \E c \in connections' \ connections :
              /\ c.id = last'.args[1]
              /\ connections' = connections \cup {c}
              /\ sock' = [s \in Sockets |->
                             IF s \in {c.output_socket, c.input_socket}
                             THEN Append(sock[s], c) ELSE sock[s]]
              /\ Count(sock'[c.output_socket], c) = 1
              /\ Count(sock'[c.input_socket], c) = 1
              /\ state'[c.input_socket[1]] = "dirty"]_vars

\* a connection just made to a multi input that already held another one,
\* on a node that was computed before
C11_Witness ==
    /\ last.op = "connect_nodes" /\ ~last.raised
    /\ \E c \in connections :
          /\ c.id = last.args[1]
          /\ Len(sock[c.input_socket]) = 2
          /\ state[c.input_socket[1]] = "dirty"
          /\ output_cache[c.input_socket[1]] # <<>>

\* C12: graph.disconnect of a registered connection takes it out of the
\* graph's connection map and out of the lists of its two sockets, leaves
\* every other connection where it was, and leaves the input node Dirty.
C12_DisconnectRemoves ==
    [][last'.op = "disconnect" =>
          \E c \in connections :
              /\ c.id = last'.args[1]
              /\ connections' = connections \ {c}
              /\ sock' = [s \in Sockets |-> Remove(sock[s], c)]
              /\ state'[c.input_socket[1]] = "dirty"]_vars

\* a disconnect that left another connection in place, on an input node that
\* was computed before
C12_Witness ==
    /\ last.op = "disconnect"
    /\ Live # {}
    /\ state[last.args[1][2][1]] = "dirty"
    /\ output_cache[last.args[1][2][1]] # <<>>

\* the values compute() of node n returns when it reads every input socket's
\* default value
DefaultResults(n) ==
    ComputeResults(sock, n, [k \in 1..Len(InputsOf(n)) |->
                                DefaultValue(<<n, InputsOf(n)[k]>>)])

\* C13: once graph.disconnect has removed the only connection of an input
\* socket, get_value of that socket is the socket's default value, and the
\* next get_output_value on the consuming node calls compute() again: what
\* it returns is the newly cached value, which is the value computed from
\* the defaults when no input of the node is connected any more.
C13_DefaultAfterDisconnect ==
    [][/\ (last'.op = "disconnect" /\ sock'[last'.args[1][2]] = <<>>) =>
            LET S == Store(state', cache_valid', output_cache')
                s == last'.args[1][2]
            IN  \A F \in SUBSET NodeIds :
                    SocketGetValue(sock', F, S, s, RecursionLimit)
                        = Return(S, DefaultValue(s))
       /\ ( /\ last.op = "disconnect"
            /\ sock[last.args[1][2]] = <<>>
            /\ last'.op = "get_output_value"
            /\ last'.args[1] = last.args[1][2][1] ) =>
            LET n == last'.args[1]
                name == last'.args[2]
            IN  /\ Contains(last'.computed, n)
                /\ ~last'.raised =>
                      /\ state'[n] = "clean" /\ cache_valid'[n]
                      /\ last'.value = output_cache'[n][name]
                      /\ (\A k \in 1..Len(InputsOf(n)) :
                              sock[<<n, InputsOf(n)[k]>>] = <<>>)
                         => last'.value = DefaultResults(n)[name]]_vars

\* the only connection of an input socket was just disconnected, and the
\* consuming node still holds the value it cached while the wire was there,
\* which is not the value its defaults give
C13_Witness ==
    /\ last.op = "disconnect"
    /\ LET s == last.args[1][2]
           n == s[1]
       IN  /\ n \in NodeSet
           /\ \A k \in 1..Len(InputsOf(n)) : sock[<<n, InputsOf(n)[k]>>] = <<>>
           /\ state[n] = "dirty"
           /\ "out1" \in DOMAIN output_cache[n]
           /\ output_cache[n]["out1"] # DefaultResults(n)["out1"]

\* C14: a connect_nodes call that raises (same node at both ends, socket
\* types that are not compatible, a non-multi socket that is already
\* connected, a node id or socket name that does not exist) changes nothing:
\* the node map, the connection map, every socket's connection list and
\* every node's state, cache validity and cache are as before the call.
C14_FailedConnectNoEffect ==
    [][(last'.op = "connect_nodes" /\ last'.raised) =>
          UNCHANGED <<nodes, connections, sock, state, cache_valid, output_cache>>]_vars

\* a connect_nodes call refused for an input socket that was taken, on a
\* graph that holds a Dirty node and a connection
C14_Witness ==
    /\ last.op = "connect_nodes" /\ last.raised
    /\ last.error = "other_connected"
    /\ \E n \in NodeSet : state[n] = "dirty"
    /\ connections # {}

\* C15: no connect_nodes call whose input socket is not multi and already
\* holds a Connection returns: it raises; and after a connect_nodes call that
\* raised, the Connection such a socket held is still the one on the socket,
\* still on its output socket and still in the graph's connection map.
C15_SecondProducerRefused ==
    [][/\ (last'.op = "connect_nodes" /\ ~last'.raised) =>
            \A on, in \in NodeIds :
                \A os \in SeqRange(OutputNames), is \in SeqRange(InputNames) :
                    ( /\ <<in, is>> \in InputSockets
                      /\ ~IsMulti(<<in, is>>)
                      /\ sock[<<in, is>>] # <<>> )
                    => ~ConnectNodes(on, os, in, is)
       /\ (last'.op = "connect_nodes" /\ last'.raised) =>
            \A s \in InputSockets :
                (~IsMulti(s) /\ sock[s] # <<>>) =>
                    LET c == sock[s][1]
                    IN  /\ sock'[s] = <<c>>
                        /\ Contains(sock'[c.output_socket], c)
                        /\ c \in connections']_vars

\* a producer with a free output was refused by a non-multi input socket
\* that holds a Connection
C15_Witness ==
    /\ last.op = "connect_nodes" /\ last.raised
    /\ last.error = "other_connected"
    /\ \E s \in InputSockets :
          /\ ~IsMulti(s) /\ Len(sock[s]) = 1
          /\ sock[s][1] \in connections
          /\ \E o \in OutputSockets :
                /\ o[1] \in NodeSet \ {s[1]} /\ sock[o] = <<>>
                /\ IsCompatibleWith(SocketTypeOf(o), SocketTypeOf(s))

\* C16: every Connection in the graph's connection map goes from an Output
\* socket to an Input socket of another node, and no connect_nodes call that
\* names the same node as producer and as consumer returns: it raises.
C16_EndpointsDiffer ==
    [][/\ \A c \in connections' :
            /\ Direction(c.output_socket) = "output"
            /\ Direction(c.input_socket) = "input"
            /\ c.output_socket[1] # c.input_socket[1]
       /\ (last'.op = "connect_nodes" /\ ~last'.raised) =>
            \A n \in NodeIds :
                \A os \in SeqRange(OutputNames), is \in SeqRange(InputNames) :
                    ~ConnectNodes(n, os, n, is)]_vars

\* a node's output was refused by the node's own input, the two sockets
\* free and of compatible types, in a graph that holds a Connection
C16_Witness ==
    /\ last.op = "connect_nodes" /\ last.raised
    /\ last.error = "same_node"
    /\ connections # {}
    /\ \E n \in NodeSet : sock[<<n, "out1">>] = <<>> /\ sock[<<n, "in1">>] = <<>>

\* C17: a node in state Error stays in Error, and its compute() is not
\* called, in a get_output_value call: nothing is retried before mark_dirty.
C17_ErrorNotRetried ==
    [][last'.op = "get_output_value" =>
          \A m \in NodeIds :
              state[m] = "error" =>
                  ~Contains(last'.computed, m) /\ state'[m] = "error"]_vars

\* C18: in a get_output_value call on a graph without cycle, the only nodes
\* that enter state Error are nodes whose own compute() raised: a node that
\* pulled from a failing node does not.
C18_ErrorNodeLocal ==
    [][\A n \in NodeIds, name \in SeqRange(OutputNames), F \in SUBSET NodeSet :
          ( /\ last'.op = "get_output_value"
            /\ ~HasCycle
            /\ NodeGetOutputValue(n, name, F) )
          => \A m \in NodeIds :
                 (state[m] # "error" /\ state'[m] = "error") => m \in F]_vars

\* C19: get_execution_order changes nothing, whether it returns or raises:
\* the node map, the connection map, every socket's connection list and
\* every node's state, cache validity and cache are as before the call.
C19_OrderNoMutation ==
    [][last'.op = "get_execution_order" =>
          UNCHANGED <<nodes, connections, sock, state, cache_valid, output_cache>>]_vars

\* get_execution_order returned the order of a graph of two connected nodes,
\* one Clean with a valid cache and one not
C19_Witness ==
    /\ last.op = "get_execution_order" /\ ~last.raised
    /\ Len(last.order) = 2
    /\ Live # {}
    /\ \E n, m \in NodeSet :
          state[n] = "clean" /\ cache_valid[n] /\ state[m] # "clean"

\* two nodes neither of which depends on the other
Independent(a, b) == a # b /\ b \notin Dependents(a) /\ a \notin Dependents(b)

\* C20 as stated: in the sequence get_execution_order returns, any two
\* independent nodes stand in the order of their insertion into the graph.
C20_TiesByInsertionOrder ==
    (last.op = "get_execution_order" /\ ~last.raised) =>
        \A a, b \in NodeSet :
            (Independent(a, b) /\ IndexOf(nodes, a) < IndexOf(nodes, b))
            => IndexOf(last.order, a) < IndexOf(last.order, b)

\* the nodes of the graph that have no incoming connection, in insertion order
SourceNodes == SelectSeq(nodes, LAMBDA n : InputConnections(sock, n) = <<>>)

\* the place in the returned order of the last producer of node n to be
\* emitted, 0 when n has no incoming connection
ReadyAt(n) ==
    LET ps == {IndexOf(last.order, c.output_socket[1]) :
                   c \in SeqRange(InputConnections(sock, n))}
    IN  IF ps = {} THEN 0 ELSE CHOOSE i \in ps : \A j \in ps : j <= i

\* the place of the last connection to node n among the connections of the
\* output sockets of node p
LastFrom(p, n) ==
    LET cs == OutputConnections(sock, p)
        ks == {k \in 1..Len(cs) : cs[k].input_socket[1] = n}
    IN  CHOOSE i \in ks : \A j \in ks : j <= i

\* C20 amended: the sequence get_execution_order returns is fixed by the
\* graph.  It starts with the nodes that have no incoming connection, in the
\* order of their insertion; every other node comes after all its producers,
\* the nodes stand in the order in which their last producer was emitted, and
\* nodes released by the same producer stand in the order of that producer's
\* connections.
C20_OrderFixedByGraph ==
    (last.op = "get_execution_order" /\ ~last.raised) =>
        /\ Len(last.order) >= Len(SourceNodes)
        /\ SubSeq(last.order, 1, Len(SourceNodes)) = SourceNodes
        /\ \A i \in 1..Len(last.order) : ReadyAt(last.order[i]) < i
        /\ \A i, j \in 1..Len(last.order) :
              i < j =>
                  LET a == last.order[i]
                      b == last.order[j]
                  IN  \/ ReadyAt(a) < ReadyAt(b)
                      \/ /\ ReadyAt(a) = ReadyAt(b)
                         /\ IF ReadyAt(a) = 0
                            THEN IndexOf(nodes, a) < IndexOf(nodes, b)
                            ELSE LastFrom(last.order[ReadyAt(a)], a)
                                     < LastFrom(last.order[ReadyAt(a)], b)

\* an order of three nodes in which two independent nodes do not stand in
\* insertion order: the later one has no incoming connection, the earlier
\* one waits for its producer
C20_Witness ==
    /\ last.op = "get_execution_order" /\ ~last.raised
    /\ Len(last.order) = 3
    /\ Len(SourceNodes) = 2
    /\ \E a, b \in NodeSet :
          /\ Independent(a, b)
          /\ IndexOf(nodes, a) < IndexOf(nodes, b)
          /\ IndexOf(last.order, b) < IndexOf(last.order, a)

\* C21: is_compatible_with(producer, consumer) on two of the six value types
\* is true exactly for the pairs of the table; Array(T) is accepted by
\* Array(U), and by a type U that is no array, exactly when T is accepted by U.
C21_CompatibilityTable ==
    last.op = "is_compatible_with" =>
        LET a == last.args[1]
            b == last.args[2]
            TableTypes == {NUMBER, VECTOR2D, GEOMETRY, COLOR, STRING_T, BOOLEAN_T}
            CompatibilityTable ==
                {<<NUMBER, NUMBER>>, <<NUMBER, VECTOR2D>>,
                 <<VECTOR2D, VECTOR2D>>, <<VECTOR2D, NUMBER>>,
                 <<GEOMETRY, GEOMETRY>>,
                 <<COLOR, COLOR>>, <<COLOR, VECTOR2D>>,
                 <<BOOLEAN_T, BOOLEAN_T>>, <<BOOLEAN_T, NUMBER>>,
                 <<STRING_T, STRING_T>>}
        IN  /\ (a \in TableTypes /\ b \in TableTypes) =>
                  (last.value <=> <<a, b>> \in CompatibilityTable)
            /\ (a.kind = "Array" /\ b.kind = "Array"
                    /\ a.element_type \in TableTypes /\ b.element_type \in TableTypes) =>
                  (last.value <=> <<a.element_type, b.element_type>> \in CompatibilityTable)
            /\ (a.kind = "Array" /\ a.element_type \in TableTypes /\ b \in TableTypes) =>
                  (last.value <=> <<a.element_type, b>> \in CompatibilityTable)
            /\ (a.kind = "Array" /\ b.kind = "Array") =>
                  (last.value <=> IsCompatibleWith(a.element_type, b.element_type))
            /\ (a.kind = "Array" /\ b.kind # "Array") =>
                  (last.value <=> IsCompatibleWith(a.element_type, b))

\* an array of Boolean was found to be accepted by Number
C21_Witness ==
    /\ last.op = "is_compatible_with"
    /\ last.args = <<ArrayType(BOOLEAN_T), NUMBER>>
    /\ last.value = TRUE

\* C22: Any is a wildcard in both directions: is_compatible_with is true
\* whenever the producer's type or the consumer's type is Any.
C22_AnyTwoWay ==
    (/\ last.op = "is_compatible_with"
     /\ (last.args[1] = ANY \/ last.args[2] = ANY)) => last.value = TRUE

\* the connect_nodes call from the output socket o to the input socket i
ConnectSockets(o, i) == ConnectNodes(o[1], o[2], i[1], i[2])

\* two sockets of two nodes of the graph, neither holding a connection
FreePair(o, i) ==
    /\ o \in OutputSockets /\ i \in InputSockets
    /\ o[1] \in NodeSet /\ i[1] \in NodeSet /\ o[1] # i[1]
    /\ sock[o] = <<>> /\ sock[i] = <<>>

\* C23 as stated: connect_nodes accepts a Number output into a Vector input
\* and rejects a Vector output into a Number input.
C23_VectorIntoNumberRejected ==
    [][last'.op = "connect_nodes" =>
        \A o \in OutputSockets, i \in InputSockets :
            /\ (/\ FreePair(o, i)
                 /\ SocketTypeOf(o) = NUMBER /\ SocketTypeOf(i) = VECTOR2D
                 /\ ConnectSockets(o, i)) => ~last'.raised
            /\ (/\ FreePair(o, i)
                 /\ SocketTypeOf(o) = VECTOR2D /\ SocketTypeOf(i) = NUMBER
                 /\ ConnectSockets(o, i)) => last'.raised]_vars

\* C23 amended: connect_nodes accepts a Number output into a Vector input and
\* a Vector output into a Number input; it accepts a Color output into a
\* Vector input and rejects a Vector output into a Color input, leaving the
\* sockets and the connection map as they were.
C23_ColorVectorDirectional ==
    [][last'.op = "connect_nodes" =>
        \A o \in OutputSockets, i \in InputSockets :
            (/\ FreePair(o, i)
             /\ SocketTypeOf(o) \in {NUMBER, VECTOR2D, COLOR}
             /\ SocketTypeOf(i) \in {NUMBER, VECTOR2D, COLOR}
             /\ ConnectSockets(o, i)) =>
                /\ (SocketTypeOf(o) = NUMBER /\ SocketTypeOf(i) = VECTOR2D)
                        => ~last'.raised
                /\ (SocketTypeOf(o) = VECTOR2D /\ SocketTypeOf(i) = NUMBER)
                        => ~last'.raised
                /\ (SocketTypeOf(o) = COLOR /\ SocketTypeOf(i) = VECTOR2D)
                        => ~last'.raised
                /\ (SocketTypeOf(o) = VECTOR2D /\ SocketTypeOf(i) = COLOR)
                        => /\ last'.raised
                           /\ UNCHANGED <<sock, connections>>]_vars

\* a Vector output was refused by a free Color input of the other node
C23_Witness ==
    /\ last.op = "connect_nodes" /\ last.raised /\ last.error = "incompatible"
    /\ SocketTypeOf(<<1, "out1">>) = VECTOR2D /\ SocketTypeOf(<<2, "in1">>) = COLOR
    /\ FreePair(<<1, "out1">>, <<2, "in1">>)
    /\ connections = {}

\* C24: convert_value never raises, and it returns the zero value of the
\* type for an arbitrary object given to Number, for a '#' string with a
\* character that is no hex digit given to Color, and for a list with a
\* non-numeric element among those it reads given to Vector.
C24_ConvertNeverRaises ==
    last.op = "convert_value" =>
        LET t == last.args[1]
            v == last.args[2]
        IN  /\ ~last.raised
            /\ (t = NUMBER /\ v = Obj) => last.value = Num(0)
            /\ (/\ t = COLOR /\ v.tag = "str"
                 /\ v.chars # <<>> /\ v.chars[1] = "#"
                 /\ \E i \in 2..Len(v.chars) : DigitOf(v.chars[i]) < 0)
                    => last.value = White
            /\ (/\ t = VECTOR2D /\ v.tag = "list"
                 /\ \E i \in 1..Len(v.items) :
                        i <= 2 /\ v.items[i].tag \notin {"number", "bool"}
                               /\ Float(v.items[i]).raised)
                    => last.value = List(<<Num(0), Num(0)>>)

\* C25: in every reachable state a socket that is not multi, an output
\* socket included, holds at most one Connection; and no connect_nodes call
\* from an output socket that already holds a Connection returns: it raises.
C25_NonMultiAtMostOne ==
    /\ [](\A s \in Sockets : ~IsMulti(s) => Len(sock[s]) <= 1)
    /\ [][(last'.op = "connect_nodes" /\ ~last'.raised) =>
            \A o \in OutputSockets, i \in InputSockets :
                sock[o] # <<>> => ~ConnectSockets(o, i)]_vars

\* a second consumer, a multi input of another node, was refused by an
\* output socket that holds a Connection
C25_Witness ==
    /\ last.op = "connect_nodes" /\ last.raised
    /\ last.error = "self_connected"
    /\ \E o \in OutputSockets :
          /\ Len(sock[o]) = 1
          /\ sock[o][1] \in connections
          /\ \E i \in InputSockets :
                /\ IsMulti(i) /\ i[1] \in NodeSet \ {o[1]}
                /\ IsCompatibleWith(SocketTypeOf(o), SocketTypeOf(i))

\* the notifications of the kind `kind` a call fired for the node m
EventsOf(S, kind, m) == SelectSeq(S.events, LAMBDA e : e[1] = kind /\ e[2] = m)

\* C26: for every get_output_value call that can be made, every node whose
\* compute() the call ran was set to Processing, and either ends in Error
\* with an invalid cache and no value-changed notification, the call
\* raising, or ends Clean with a valid cache that holds a value for each of
\* its outputs and exactly one value-changed notification; a node whose
\* compute() raises ends in Error, and the call returns the cached value of
\* the output asked for exactly when the node asked ends Clean.
C26_RecalculateOutcome ==
    \A n \in NodeSet : \A name \in SeqRange(OutputsOf(n)) : \A F \in SUBSET NodeSet :
        LET r == GetOutputValue(sock, F, CurrentStore, n, name, RecursionLimit)
            Failed(m) ==
                /\ r.S.state[m] = "error"
                /\ ~r.S.cache_valid[m]
                /\ EventsOf(r.S, "value_changed", m) = <<>>
                /\ r.raised
            Succeeded(m) ==
                /\ r.S.state[m] = "clean"
                /\ r.S.cache_valid[m]
                /\ DOMAIN r.S.output_cache[m] = SeqRange(OutputsOf(m))
                /\ Len(EventsOf(r.S, "value_changed", m)) = 1
                /\ m \notin F
        IN  /\ \A m \in SeqRange(r.S.computed) :
                  /\ \E e \in SeqRange(EventsOf(r.S, "state_changed", m)) :
                        e[3] = "processing"
                  /\ Failed(m) \/ Succeeded(m)
                  /\ m \in F => Failed(m)
            /\ n \in SeqRange(r.S.computed) =>
                  /\ r.raised <=> Failed(n)
                  /\ ~r.raised => r.value = r.S.output_cache[n][name]

\* a get_output_value call raised after the compute() of one node had
\* returned and the compute() of another had raised
C26_Witness ==
    /\ last.op = "get_output_value" /\ last.raised
    /\ \E a, b \in SeqRange(last.computed) :
          /\ state[a] = "error" /\ ~cache_valid[a]
          /\ state[b] = "clean" /\ cache_valid[b]
          /\ a = last.args[1]

\* C27: a mark_dirty call on a node that is Dirty changes no node's state,
\* cache validity or cache, marks no other node and fires no state-changed
\* notification.
C27_MarkDirtyNoOp ==
    [][(last'.op = "mark_dirty" /\ state[last'.args[1]] = "dirty") =>
            /\ UNCHANGED <<state, cache_valid, output_cache>>
            /\ last'.dirtied = <<>>]_vars

\* mark_dirty with propagation was called on a Dirty node that has a
\* dependent which is not Dirty, and marked nothing
C27_Witness ==
    /\ last.op = "mark_dirty" /\ last.args[2] = TRUE
    /\ last.dirtied = <<>>
    /\ \E m \in Dependents(last.args[1]) : state[m] = "clean" /\ cache_valid[m]

\* C28: a get_output_value call on a graph built with add_node and
\* connect_nodes recurses no deeper than the graph has nodes: it enters the
\* compute() of no node twice, and it does not end by exhausting the
\* interpreter's call stack.
C28_PullTerminates ==
    (last.op = "get_output_value" /\ removed = {}) =>
        /\ \A m \in NodeIds : Count(last.computed, m) <= 1
        /\ Len(last.computed) < RecursionLimit

\* the nodes from which a path of connections leads to n
Upstream(n) == {m \in NodeIds : n \in Dependents(m)}

\* C29: get_dependencies and get_dependents return, without raising, exactly
\* the set of the nodes from which a path of connections leads to the node,
\* and the set of the nodes to which one leads from it.
C29_TransitiveSets ==
    /\ last.op = "get_dependencies" =>
          ~last.raised /\ last.value = Upstream(last.args[1])
    /\ last.op = "get_dependents" =>
          ~last.raised /\ last.value = Dependents(last.args[1])

\* the nodes reached from the nodes of X by one to k edges of E
RECURSIVE ReachableVia(_, _, _)
ReachableVia(E, X, k) ==
    IF k = 0 THEN {}
    ELSE LET step == {e[2] : e \in {d \in E : d[1] \in X}}
         IN  step \cup ReachableVia(E, step, k - 1)

\* a connection from a node a to a node b would close a cycle
WouldCreateCycle(a, b) ==
    LET E == Edges \cup {<<a, b>>}
    IN  \E n \in NodeIds : n \in ReachableVia(E, {n}, NumNodes)

C31_DirtyAtMostOnce ==
    [][last'.op = "mark_dirty" =>
        /\ \A m \in NodeIds : Count(last'.dirtied, m) <= 1
        /\ Len(last'.dirtied) <= NumNodes
        /\ \A m \in SeqRange(last'.dirtied) :
              /\ state[m] # "dirty"
              /\ state'[m] = "dirty" /\ ~cache_valid'[m]
        /\ \A m \in NodeIds \ SeqRange(last'.dirtied) :
              state'[m] = state[m] /\ cache_valid'[m] = cache_valid[m]]_vars

\* mark_dirty with propagation was called on a node of a cycle and set the
\* nodes of the cycle Dirty, the node itself first
C31_Witness ==
    /\ last.op = "mark_dirty" /\ last.args[2] = TRUE
    /\ last.args[1] \in Dependents(last.args[1])
    /\ Len(last.dirtied) >= 2
    /\ last.dirtied[1] = last.args[1]
    /\ \A m \in SeqRange(last.dirtied) : m \in Dependents(last.args[1])

\* C32: in every reachable state, that is after every call of the graph and
\* of a node that returned or raised, no node is in state Processing.
C32_NoProcessingAtRest ==
    \A n \in NodeIds : state[n] # "processing"

\* a get_output_value call raised after it had entered the compute() of two
\* nodes, which are both in Error now
C32_Witness ==
    /\ last.op = "get_output_value" /\ last.raised
    /\ Cardinality(SeqRange(last.computed)) >= 2
    /\ \A m \in SeqRange(last.computed) : state[m] = "error"

\* C33: in every reachable state a node with a valid cache is Clean; and a
\* get_output_value call that returns without running the compute() of its
\* node returns the cached value of a Clean node.
C33_ValidCacheIsClean ==
    /\ [](\A n \in NodeIds : cache_valid[n] => state[n] = "clean")
    /\ [][(/\ last'.op = "get_output_value" /\ ~last'.raised
            /\ ~Contains(last'.computed, last'.args[1])) =>
                LET n == last'.args[1]
                IN  /\ state[n] = "clean" /\ cache_valid[n]
                    /\ last'.value = output_cache[n][last'.args[2]]
                    /\ UNCHANGED <<state, cache_valid, output_cache>>]_vars

\* get_output_value returned the cached value of a Clean node while another
\* node of the graph, Dirty or in Error, had no valid cache
C33_Witness ==
    /\ last.op = "get_output_value" /\ ~last.raised /\ last.computed = <<>>
    /\ state[last.args[1]] = "clean" /\ cache_valid[last.args[1]]
    /\ \E m \in NodeSet : state[m] \in {"dirty", "error"} /\ ~cache_valid[m]

\* C34: in every reachable state every Connection in the connection list of
\* a socket of a node of the graph is in the graph's connection map, and is
\* in the lists of both its output socket and its input socket.
C34_SocketListsConsistent ==
    \A s \in Sockets :
        s[1] \in NodeSet =>
            \A c \in SeqRange(sock[s]) :
                /\ c \in connections
                /\ s \in {c.output_socket, c.input_socket}
                /\ Contains(sock[c.output_socket], c)
                /\ Contains(sock[c.input_socket], c)

\* remove_node took a node with a Connection out of the graph: the
\* Connection is still in the connection map but on no socket, while another
\* Connection is on the sockets of two nodes of the graph
C34_Witness ==
    /\ last.op = "remove_node"
    /\ \E c \in connections :
          /\ c \notin Live
          /\ last.args[1] \in {c.output_socket[1], c.input_socket[1]}
          /\ {c.output_socket[1], c.input_socket[1]} \cap NodeSet # {}
    /\ \E d \in connections \cap Live :
          d.output_socket[1] \in NodeSet /\ d.input_socket[1] \in NodeSet

\* C35: after a graph.disconnect(id) call and after a Connection.disconnect()
\* call, a further graph.disconnect with the same id and a further
\* disconnect() of the same Connection raise no error and leave the
\* connection list of every socket, the connection map and the state, the
\* cache validity and the cache of every node as that call left them.
C35_DisconnectIdempotent ==
    [][last'.op \in {"disconnect", "connection_disconnect"} =>
        LET id == last'.args[1]
            c == Connection(id, id[1], id[2])
            S == Store(state', cache_valid', output_cache')
            again == GraphDisconnect(connections', sock', S, id)
        IN  /\ ~last'.raised
            /\ ConnectionDisconnect(sock', c) = sock'
            /\ last'.op = "disconnect" =>
                  /\ ~again.raised
                  /\ again.connections = connections'
                  /\ again.sk = sock'
                  /\ again.S.state = state'
                  /\ again.S.cache_valid = cache_valid'
                  /\ again.S.output_cache = output_cache'
                  /\ again.S.events = <<>>]_vars

\* graph.disconnect was called with the id of a Connection that is neither
\* in the connection map nor on a socket, in a graph that has a Connection,
\* and changed nothing: the node of its input socket is not Dirty
C35_Witness ==
    /\ last.op = "disconnect" /\ ~last.raised
    /\ \A c \in Known : c.id # last.args[1]
    /\ last.args[1][2][1] \in NodeSet
    /\ state[last.args[1][2][1]] # "dirty"
    /\ connections \cap Live # {}

====
